---- MODULE Spec2Model ----
(***************************************************************************)
(* RabbitMQBroker (src/dist/broker.js): one broker instance holding the    *)
(* fields `connection` and `channel`, driven by asynchronous method calls  *)
(* (init, closeConnection and the seven channel operations) that suspend   *)
(* at every awaited transport call, and by "close" events of the           *)
(* connections it opened.  The transport (amqplib) and the EventEmitter    *)
(* base class are modelled by what the code observes of them; the broker   *)
(* is modelled by the exchanges, queues and bindings it holds and by the   *)
(* AMQP rules under which it accepts a declare, a bind or a consume.       *)
(***************************************************************************)
EXTENDS Integers, Sequences, FiniteSets, TLC

\* Bounds of the model.
MaxConns == 2
MaxChans == 2
MaxMsgs == 2
MaxDeliveries == 2
MaxInstances == 2

NULL == 0
ConnIds == 1..MaxConns
ChanIds == 1..MaxChans
\* Two callers, each with at most one invocation in flight.
Tasks == {1, 2}
\* The messages of the consumed queue, and what the delivery callback may be
\* called with: a message, or null when the broker cancels the consumer.
Msgs == 1..MaxMsgs
Deliverable == Msgs \cup {NULL}
\* The consume callback that acknowledges nothing itself (src/dist/broker.js)
\* and the one that acknowledges for the handler (src/unnamed/part_002).
Variants == {"delegated", "managed"}

\* init(url): a missing url (undefined), the empty string, a well-formed url.
Urls == {"undefined", "", "amqp://broker"}

\* The public operations that go through ensureChannel.
OpKinds == {"publish", "publishToExchange", "assertExchange", "setupQueue",
            "bindQueue", "setupDeadLetterQueue", "consume"}

\* The entities the callers name, and the exchange types they ask for.
QueueNames == {"jobs", "jobs.dead"}
ExchangeNames == {"events"}
ExchangeTypes == {"topic", "direct"}
RoutingKeys == {"#"}

\* The arguments of an operation; "" where the operation has no such
\* parameter, "undefined" where the caller leaves a defaulted one out.
OpArg(queue, exchange, type, key, dlq) ==
    [queue |-> queue, exchange |-> exchange, type |-> type, key |-> key,
     dlq |-> dlq]

NoArgs == OpArg("", "", "", "", "")

OpArgs(kind) ==
    CASE kind = "publish" -> {OpArg("jobs", "", "", "", "")}
      [] kind = "publishToExchange" ->
            {OpArg("", "events", ty, "#", "") : ty \in {"undefined", "direct"}}
      [] kind = "assertExchange" ->
            {OpArg("", "events", ty, "", "") : ty \in ExchangeTypes}
      [] kind = "setupQueue" -> {OpArg("jobs", "", "", "", "")}
      [] kind = "bindQueue" -> {OpArg("jobs.dead", "events", "", "#", "")}
      [] kind = "setupDeadLetterQueue" ->
            {OpArg("jobs", "events", ty, "undefined", "jobs.dead") :
                ty \in {"undefined", "direct"}}
      [] kind = "consume" -> {OpArg("jobs", "", "", "", "")}

VARIABLES
    connection,     \* this.connection: a connection id or NULL
    channel,        \* this.channel: a channel id or NULL
    connState,      \* transport: each connection id is unopened, live, closed
                    \* (by connection.close()) or lost (closed by the broker)
    chanState,      \* transport: each channel id is unopened, live or closed
    chanConn,       \* transport: the connection a channel was created on
    closedNotified, \* "connectionClosed" notifications raised per connection
    errorListener,  \* a subscriber is attached to the "error" notification
    exchanges,      \* broker: the type of each exchange, or "absent"
    queues,         \* broker: each queue is "absent", "plain" (durable, no
                    \* arguments) or carries the name of its dead-letter exchange
    bindings,       \* broker: the set of <<queue, exchange, routing key>>
    variant,        \* which consume callback is registered
    consumerChan,   \* the channel the consumer was registered on, or NULL
    delivery,       \* per message: where it is, its handler invocation, and
                    \* what was done for its current delivery
    cancelled,      \* the callback has been called with null
    instance,       \* RabbitMQBroker.instance: NULL or the object's number
    constructed,    \* number of RabbitMQBroker objects constructed
    ref,            \* the reference each caller got from getInstance
    observing,      \* the connection whose close listener is running, between
                    \* its emit("connectionClosed") and its assignments
    publishing,     \* emitter variant: the publish call in flight
    published,      \* emitter variant: the last "messagePublished" notification
    task,           \* the invocation each caller has in flight, with its locals
    last            \* the invocation that has just returned and its result

vars == <<connection, channel, connState, chanState, chanConn, closedNotified,
          errorListener, exchanges, queues, bindings, variant, consumerChan,
          delivery, cancelled, instance, constructed, ref, observing,
          publishing, published, task, last>>

transport == <<connState, chanState, chanConn, closedNotified>>

topology == <<exchanges, queues, bindings>>

dispatch == <<variant, consumerChan, delivery, cancelled>>

registry == <<instance, constructed, ref>>

notification == <<observing, publishing, published>>

IdleTask == [pc |-> "idle", kind |-> "none", step |-> 0, tch |-> NULL,
             tconn |-> NULL, entryConn |-> NULL, issued |-> <<>>,
             args |-> NoArgs]

NoResult == [kind |-> "none", arg |-> "", outcome |-> "none", err |-> "none",
             issued |-> <<>>, errors |-> 0, entryConn |-> NULL,
             args |-> NoArgs]

\* No publish call of the emitter variant is in flight.
NoPublish == [kind |-> "none", queue |-> "", exchange |-> "", routingKey |-> "",
              message |-> ""]

\* No "messagePublished" notification has been raised.
NoNotice == [name |-> "none", queue |-> "", exchange |-> "", routingKey |-> "",
             message |-> ""]

\* A message that is not in the queue and has no handler running.
NoDelivery == [state |-> "none", handler |-> "idle", result |-> "none",
               given |-> NULL, count |-> 0, fails |-> 0, requeues |-> 0,
               dAck |-> 0, dNack |-> 0, hAck |-> 0,
               notified |-> 0, escaped |-> 0]

\* constructor: both fields null, no listener attached, nothing opened.
Init ==
    /\ connection = NULL
    /\ channel = NULL
    /\ connState = [c \in ConnIds |-> "unopened"]
    /\ chanState = [h \in ChanIds |-> "unopened"]
    /\ chanConn = [h \in ChanIds |-> NULL]
    /\ closedNotified = [c \in ConnIds |-> 0]
    /\ errorListener = FALSE
    /\ exchanges = [x \in ExchangeNames |-> "absent"]
    /\ queues = [q \in QueueNames |-> "absent"]
    /\ bindings = {}
    /\ variant = "delegated"
    /\ consumerChan = NULL
    /\ delivery = [m \in Deliverable |-> NoDelivery]
    /\ cancelled = FALSE
    /\ instance = 1
    /\ constructed = 1
    /\ ref = [t \in Tasks |-> 1]
    /\ observing = NULL
    /\ publishing = NoPublish
    /\ published = NoNotice
    /\ task = [t \in Tasks |-> IdleTask]
    /\ last = NoResult

----------------------------------------------------------------------------
\* Helpers.

Count(x, s) == Cardinality({i \in 1..Len(s) : s[i] = x})

LiveConns == {c \in ConnIds : connState[c] = "live"}
LiveChans == {h \in ChanIds : chanState[h] = "live"}

HasFreeConn == \E c \in ConnIds : connState[c] = "unopened"
HasFreeChan == \E h \in ChanIds : chanState[h] = "unopened"
FreshConn == CHOOSE c \in ConnIds :
    connState[c] = "unopened" /\ \A d \in ConnIds : d < c => connState[d] # "unopened"
FreshChan == CHOOSE h \in ChanIds :
    chanState[h] = "unopened" /\ \A d \in ChanIds : d < h => chanState[d] # "unopened"

\* The awaited broker calls of an operation, in program order.
Awaited(kind) ==
    CASE kind = "publish" -> <<"assertQueue">>
      [] kind = "publishToExchange" -> <<"assertExchange">>
      [] kind = "assertExchange" -> <<"assertExchange">>
      [] kind = "setupQueue" -> <<"assertQueue">>
      [] kind = "bindQueue" -> <<"bindQueue">>
      [] kind = "setupDeadLetterQueue" ->
            <<"assertExchange", "assertQueue", "bindQueue", "assertQueue">>
      [] kind = "consume" -> <<"consume">>

\* The synchronous send that follows the awaited calls, if any.
Trailing(kind) ==
    CASE kind = "publish" -> <<"sendToQueue">>
      [] kind = "publishToExchange" -> <<"publish">>
      [] OTHER -> <<>>

\* A defaulted parameter: (type = "topic"), (dlqRoutingKey = "#").
Default(v, d) == IF v = "undefined" THEN d ELSE v

\* A call on the channel as the broker receives it; dlx is the
\* "x-dead-letter-exchange" argument of a queue declaration, "" if none.
Call(m, queue, exchange, type, key, dlx) ==
    [m |-> m, queue |-> queue, exchange |-> exchange, type |-> type,
     key |-> key, dlx |-> dlx]

\* (mutant) setupDeadLetterQueue declares the primary queue first.
CallsPrimaryFirst(kind, a) ==
    CASE kind = "publish" ->
            <<Call("assertQueue", a.queue, "", "", "", "")>>
      [] kind = "publishToExchange" ->
            <<Call("assertExchange", "", a.exchange, Default(a.type, "topic"), "", "")>>
      [] kind = "assertExchange" ->
            <<Call("assertExchange", "", a.exchange, a.type, "", "")>>
      [] kind = "setupQueue" ->
            <<Call("assertQueue", a.queue, "", "", "", "")>>
      [] kind = "bindQueue" ->
            <<Call("bindQueue", a.queue, a.exchange, "", a.key, "")>>
      [] kind = "setupDeadLetterQueue" ->
            <<Call("assertQueue", a.queue, "", "", "", a.exchange),
              Call("assertExchange", "", a.exchange, Default(a.type, "topic"), "", ""),
              Call("assertQueue", a.dlq, "", "", "", ""),
              Call("bindQueue", a.dlq, a.exchange, "", Default(a.key, "#"), "")>>
      [] kind = "consume" ->
            <<Call("consume", a.queue, "", "", "", "")>>

\* The awaited broker calls of an operation with their arguments, in
\* program order.
Calls(kind, a) ==
    CASE kind = "publish" ->
            <<Call("assertQueue", a.queue, "", "", "", "")>>
      [] kind = "publishToExchange" ->
            <<Call("assertExchange", "", a.exchange, Default(a.type, "topic"), "", "")>>
      [] kind = "assertExchange" ->
            <<Call("assertExchange", "", a.exchange, a.type, "", "")>>
      [] kind = "setupQueue" ->
            <<Call("assertQueue", a.queue, "", "", "", "")>>
      [] kind = "bindQueue" ->
            <<Call("bindQueue", a.queue, a.exchange, "", a.key, "")>>
      [] kind = "setupDeadLetterQueue" ->
            <<Call("assertExchange", "", a.exchange, Default(a.type, "topic"), "", ""),
              Call("assertQueue", a.dlq, "", "", "", ""),
              Call("bindQueue", a.dlq, a.exchange, "", Default(a.key, "#"), ""),
              Call("assertQueue", a.queue, "", "", "", a.exchange)>>
      [] kind = "consume" ->
            <<Call("consume", a.queue, "", "", "", "")>>

\* The call task t is waiting on.
Pending(t) == Calls(task[t].kind, task[t].args)[task[t].step]

\* The arguments a queue declaration asks for.
QueueArgs(c) == IF c.dlx = "" THEN "plain" ELSE c.dlx

\* (mutant) a broker that refuses to declare what already exists.
AcceptsOnlyNew(c) ==
    CASE c.m = "assertExchange" -> exchanges[c.exchange] = "absent"
      [] c.m = "assertQueue" -> queues[c.queue] = "absent"
      [] c.m = "bindQueue" ->
            /\ queues[c.queue] # "absent" /\ exchanges[c.exchange] # "absent"
            /\ <<c.queue, c.exchange, c.key>> \notin bindings
      [] c.m = "consume" -> queues[c.queue] # "absent"

\* Broker: a declaration is accepted when the entity is absent or exists with
\* equivalent properties; a bind needs its queue and exchange, a consume its
\* queue.
Accepts(c) ==
    CASE c.m = "assertExchange" -> exchanges[c.exchange] \in {"absent", c.type}
      [] c.m = "assertQueue" -> queues[c.queue] \in {"absent", QueueArgs(c)}
      [] c.m = "bindQueue" ->
            queues[c.queue] # "absent" /\ exchanges[c.exchange] # "absent"
      [] c.m = "consume" -> queues[c.queue] # "absent"

\* Broker: the channel exception raised for a call it does not accept.
Refusal(c) ==
    IF c.m \in {"assertExchange", "assertQueue"}
    THEN "preconditionFailed" ELSE "notFound"

\* Broker: the effect of an accepted call on the topology.
Applied(c) ==
    /\ exchanges' = IF c.m = "assertExchange"
                    THEN [exchanges EXCEPT ![c.exchange] = c.type]
                    ELSE exchanges
    /\ queues' = IF c.m = "assertQueue"
                 THEN [queues EXCEPT ![c.queue] = QueueArgs(c)]
                 ELSE queues
    /\ bindings' = IF c.m = "bindQueue"
                   THEN bindings \cup {<<c.queue, c.exchange, c.key>>}
                   ELSE bindings

\* (mutant) an emitter on which an unheard "error" is dropped.
EmitNeverThrows == FALSE

\* EventEmitter: emit("error", e) throws e when no listener is attached.
EmitThrows == ~errorListener

\* catch (err) { this.emit("error", err); } : the failure is swallowed when a
\* listener takes the notification, and escapes as a rejection when emit throws.
SwallowedOutcome == IF EmitThrows THEN "rejected" ELSE "resolved"

\* Number of notifications delivered by n emits in a row (the first throws
\* when no listener is attached).
Delivered(n) == IF EmitThrows THEN 0 ELSE n

\* Task t is at the given point of its invocation, and no settled result is
\* waiting for its caller.
At(t, pc) == last = NoResult /\ task[t].pc = pc

\* An invocation ends: its result is recorded and the task is idle again.
Result(kind, arg, outcome, err, issued, errors, entryConn, args) ==
    [kind |-> kind, arg |-> arg, outcome |-> outcome, err |-> err,
     issued |-> issued, errors |-> errors, entryConn |-> entryConn,
     args |-> args]

Complete(t, res) ==
    /\ last' = res
    /\ task' = [task EXCEPT ![t] = IdleTask]

\* A failure caught by an operation's catch block, which emits and returns.
Caught(t, kind, args, err, issued, emits) ==
    Complete(t, Result(kind, "", SwallowedOutcome, err, issued,
                       Delivered(emits), NULL, args))

----------------------------------------------------------------------------
\* Transport events.

\* The connection's "close" event: the transport marks the connection and
\* the channels multiplexed over it closed.
ClosedChans(c) ==
    [h \in ChanIds |-> IF chanConn[h] = c /\ chanState[h] = "live"
                       THEN "closed" ELSE chanState[h]]

\* The channel message m was delivered on: the one handed to its handler,
\* or the consumer's.
DeliveredOn(m) ==
    IF delivery[m].given # NULL THEN delivery[m].given ELSE consumerChan

\* Broker: the unacknowledged deliveries made on a channel go back to the
\* queue when that channel closes; hs is the channel states after the step.
RequeuedOn(hs) ==
    [m \in Deliverable |->
        IF /\ delivery[m].state = "unacked"
           /\ DeliveredOn(m) # NULL
           /\ hs[DeliveredOn(m)] # "live"
        THEN [delivery[m] EXCEPT !.state = "ready"] ELSE delivery[m]]

\* (mutant) an observer that forgets the channel.
CloseObserverKeepsChannel(c) ==
    /\ closedNotified' = [closedNotified EXCEPT ![c] = @ + 1]
    /\ connection' = NULL
    /\ channel' = channel

\* this.connection.on("close", () => { emit("connectionClosed");
\*   this.connection = null; this.channel = null; })
CloseObserver(c) ==
    /\ closedNotified' = [closedNotified EXCEPT ![c] = @ + 1]
    /\ connection' = NULL
    /\ channel' = NULL

\* The broker (or the network) closes a live connection.
ConnectionClosed(c) ==
    /\ last = NoResult
    /\ connState[c] = "live"
    /\ connState' = [connState EXCEPT ![c] = "lost"]
    /\ chanState' = ClosedChans(c)
    /\ CloseObserver(c)
    /\ delivery' = RequeuedOn(ClosedChans(c))
    /\ UNCHANGED <<chanConn, errorListener, topology, variant, consumerChan,
                   cancelled, registry, task, last, notification>>

\* broker.on("error", listener)
Subscribe ==
    /\ last = NoResult
    /\ ~errorListener
    /\ errorListener' = TRUE
    /\ UNCHANGED <<connection, channel, transport, topology,
                   dispatch, registry, task, last, notification>>

----------------------------------------------------------------------------
\* init(url)

\* if (!url)
UrlMissing(url) == url \in {"undefined", ""}

\* if (!url) { this.emit("error", ...); return; }
InitRefused(t, url) ==
    /\ Complete(t, Result("init", url, SwallowedOutcome, "urlUndefined", <<>>,
                          Delivered(1), connection, NoArgs))
    /\ UNCHANGED <<connection, channel, transport, errorListener, topology,
                   dispatch, registry, notification>>

\* try { this.connection = yield amqplib.connect(sanitizedUrl);
InitConnecting(t, url) ==
    /\ task' = [task EXCEPT ![t] =
                  [pc |-> "init_connect", kind |-> "init", step |-> 0,
                   tch |-> NULL, tconn |-> NULL, entryConn |-> connection,
                   issued |-> <<"connect">>, args |-> NoArgs]]
    /\ UNCHANGED <<connection, channel, transport, errorListener, topology,
                   dispatch, registry, last, notification>>

initCall(t, url) ==
    /\ At(t, "idle")
    /\ IF UrlMissing(url) THEN InitRefused(t, url) ELSE InitConnecting(t, url)

\* catch (err) { this.emit("error", err); throw err; }
InitFailed(t, err) ==
    Complete(t, Result("init", "amqp://broker", "rejected", err,
                       task[t].issued, Delivered(1), task[t].entryConn, NoArgs))

\* connect resolved: the connection is stored, the close observer registered
\* and createChannel issued on it.
initConnected(t) ==
    /\ At(t, "init_connect")
    /\ HasFreeConn
    /\ connection' = FreshConn
    /\ connState' = [connState EXCEPT ![FreshConn] = "live"]
    /\ task' = [task EXCEPT ![t].pc = "init_create", ![t].tconn = FreshConn,
                            ![t].issued = Append(@, "createChannel")]
    /\ UNCHANGED <<channel, chanState, chanConn, closedNotified, errorListener,
                   topology, dispatch, registry, last, notification>>

\* (mutant) a rejected handshake is answered by connecting again.
initConnectRetried(t) ==
    /\ At(t, "init_connect")
    /\ Len(task[t].issued) < 3
    /\ task' = [task EXCEPT ![t].issued = Append(@, "connect")]
    /\ UNCHANGED <<connection, channel, transport, errorListener, topology,
                   dispatch, registry, last, notification>>

\* connect rejected: the broker refuses the handshake.
initConnectFailed(t) ==
    /\ At(t, "init_connect")
    /\ InitFailed(t, "handshakeRejected")
    /\ UNCHANGED <<connection, channel, transport, errorListener, topology,
                   dispatch, registry, notification>>

\* this.channel = yield this.connection.createChannel();
initChannelCreated(t) ==
    /\ At(t, "init_create")
    /\ connState[task[t].tconn] = "live"
    /\ HasFreeChan
    /\ channel' = FreshChan
    /\ chanState' = [chanState EXCEPT ![FreshChan] = "live"]
    /\ chanConn' = [chanConn EXCEPT ![FreshChan] = task[t].tconn]
    /\ Complete(t, Result("init", "amqp://broker", "resolved", "none",
                          task[t].issued, 0, task[t].entryConn, NoArgs))
    /\ UNCHANGED <<connection, connState, closedNotified, errorListener, topology,
                   dispatch, registry, notification>>

\* createChannel rejected (the connection closed meanwhile, or the broker
\* refuses the channel).
initChannelFailed(t) ==
    /\ At(t, "init_create")
    /\ InitFailed(t, "createChannelFailed")
    /\ UNCHANGED <<connection, channel, transport, errorListener, topology,
                   dispatch, registry, notification>>

----------------------------------------------------------------------------
\* ensureChannel(), as the first statement of every channel operation

\* (mutant) a channel is created whenever a connection is held.
NeedsCreateAlways == connection # NULL

\* if (!this.channel && this.connection)
NeedsCreate == channel = NULL /\ connection # NULL

\* if (!this.channel) { emit("error", error); throw error; }
ChannelAbsent == channel = NULL

\* this.channel = yield this.connection.createChannel();
EnsureCreating(t, kind, a) ==
    /\ task' = [task EXCEPT ![t] =
                  [pc |-> "ensure_create", kind |-> kind, step |-> 0,
                   tch |-> NULL, tconn |-> connection, entryConn |-> NULL,
                   issued |-> <<"createChannel">>, args |-> a]]
    /\ UNCHANGED <<connection, channel, transport, errorListener, topology,
                   dispatch, registry, last, notification>>

\* ensureChannel emits and throws; the operation's catch block emits again.
EnsureUnavailable(t, kind, a) ==
    /\ Caught(t, kind, a, "channelUnavailable", <<>>, 2)
    /\ UNCHANGED <<connection, channel, transport, errorListener, topology,
                   dispatch, registry, notification>>

\* return this.channel; the operation issues its first awaited call on it.
EnsureHeld(t, kind, a) ==
    /\ task' = [task EXCEPT ![t] =
                  [pc |-> "op_call", kind |-> kind, step |-> 1,
                   tch |-> channel, tconn |-> NULL, entryConn |-> NULL,
                   issued |-> <<Awaited(kind)[1]>>, args |-> a]]
    /\ UNCHANGED <<connection, channel, transport, errorListener, topology,
                   dispatch, registry, last, notification>>

opCall(t, kind) ==
    /\ At(t, "idle")
    /\ \E a \in OpArgs(kind) :
          IF NeedsCreate THEN EnsureCreating(t, kind, a)
          ELSE IF ChannelAbsent THEN EnsureUnavailable(t, kind, a)
          ELSE EnsureHeld(t, kind, a)

\* (mutant) the consumer of the lost channel is registered again on the
\* new one.
RecreatedWithConsumer(h) ==
    /\ consumerChan' = IF consumerChan = NULL THEN NULL ELSE h
    /\ UNCHANGED <<topology, variant, delivery, cancelled>>

\* ensureChannel re-creates the channel and nothing else: nothing is declared
\* again and no consumer is registered on the new channel h.
Recreated(h) == UNCHANGED <<topology, dispatch>>

\* createChannel resolved inside ensureChannel.
ensureCreated(t) ==
    /\ At(t, "ensure_create")
    /\ connState[task[t].tconn] = "live"
    /\ HasFreeChan
    /\ channel' = FreshChan
    /\ chanState' = [chanState EXCEPT ![FreshChan] = "live"]
    /\ chanConn' = [chanConn EXCEPT ![FreshChan] = task[t].tconn]
    /\ task' = [task EXCEPT ![t].pc = "op_call", ![t].step = 1,
                            ![t].tch = FreshChan,
                            ![t].issued = Append(@, Awaited(task[t].kind)[1])]
    /\ Recreated(FreshChan)
    /\ UNCHANGED <<connection, connState, closedNotified, errorListener,
                   registry, last, notification>>

\* createChannel rejected inside ensureChannel.
ensureCreateFailed(t) ==
    /\ At(t, "ensure_create")
    /\ Caught(t, task[t].kind, task[t].args, "createChannelFailed", task[t].issued, 1)
    /\ UNCHANGED <<connection, channel, transport, errorListener, topology,
                   dispatch, registry, notification>>

----------------------------------------------------------------------------
\* The awaited broker calls of an operation, all on the local `channel`.

\* Broker: an accepted consume registers the callback as a consumer on the
\* channel the call was made on.
Registered(c, h) ==
    /\ consumerChan' = IF c.m = "consume" THEN h ELSE consumerChan
    /\ cancelled' = IF c.m = "consume" THEN FALSE ELSE cancelled
    /\ UNCHANGED <<variant, delivery>>

\* The broker accepts the pending call and applies it; the operation issues
\* its next call, or its synchronous send, and returns.
opCallAccepted(t) ==
    /\ At(t, "op_call")
    /\ chanState[task[t].tch] = "live"
    /\ Accepts(Pending(t))
    /\ Applied(Pending(t))
    /\ IF task[t].step < Len(Awaited(task[t].kind))
       THEN /\ task' = [task EXCEPT ![t].step = @ + 1,
                          ![t].issued = Append(@, Awaited(task[t].kind)[task[t].step + 1])]
            /\ UNCHANGED last
       ELSE Complete(t, Result(task[t].kind, "", "resolved", "none",
                               task[t].issued \o Trailing(task[t].kind), 0,
                               NULL, task[t].args))
    /\ Registered(Pending(t), task[t].tch)
    /\ UNCHANGED <<connection, channel, transport, errorListener, registry,
                   notification>>

\* (mutant) the send follows a rejected declaration all the same.
opCallRejectedThenSent(t) ==
    /\ At(t, "op_call")
    /\ chanState[task[t].tch] = "live"
    /\ ~Accepts(Pending(t))
    /\ chanState' = [chanState EXCEPT ![task[t].tch] = "closed"]
    /\ Caught(t, task[t].kind, task[t].args, Refusal(Pending(t)),
              task[t].issued \o Trailing(task[t].kind), 1)
    /\ delivery' = RequeuedOn(chanState')
    /\ UNCHANGED <<connection, channel, connState, chanConn, closedNotified,
                   errorListener, topology, variant, consumerChan, cancelled,
                   registry, notification>>

\* The broker rejects the pending declaration, bind or consume: a channel
\* exception, which closes the channel on the broker's side.
opCallRejected(t) ==
    /\ At(t, "op_call")
    /\ chanState[task[t].tch] = "live"
    /\ ~Accepts(Pending(t))
    /\ chanState' = [chanState EXCEPT ![task[t].tch] = "closed"]
    /\ Caught(t, task[t].kind, task[t].args, Refusal(Pending(t)),
              task[t].issued, 1)
    /\ delivery' = RequeuedOn(chanState')
    /\ UNCHANGED <<connection, channel, connState, chanConn, closedNotified,
                   errorListener, topology, variant, consumerChan, cancelled,
                   registry, notification>>

\* The call was made on a channel that is closed.
opCallOnClosed(t) ==
    /\ At(t, "op_call")
    /\ chanState[task[t].tch] # "live"
    /\ Caught(t, task[t].kind, task[t].args, "channelClosed", task[t].issued, 1)
    /\ UNCHANGED <<connection, channel, transport, errorListener, topology,
                   dispatch, registry, notification>>

----------------------------------------------------------------------------
\* closeConnection()

\* if (this.channel) { yield this.channel.close();
CloseChannelIssued(t) ==
    /\ task' = [task EXCEPT ![t] =
                  [pc |-> "close_channel", kind |-> "closeConnection", step |-> 0,
                   tch |-> channel, tconn |-> NULL, entryConn |-> NULL,
                   issued |-> <<"channel.close">>, args |-> NoArgs]]
    /\ UNCHANGED last

\* if (this.connection) { yield this.connection.close();
CloseConnectionIssued(t, issued) ==
    /\ task' = [task EXCEPT ![t] =
                  [pc |-> "close_connection", kind |-> "closeConnection", step |-> 0,
                   tch |-> NULL, tconn |-> connection, entryConn |-> NULL,
                   issued |-> Append(issued, "connection.close"),
                   args |-> NoArgs]]
    /\ UNCHANGED last

\* Neither branch taken (or no further one): the call returns.
CloseReturns(t, issued) ==
    Complete(t, Result("closeConnection", "", "resolved", "none", issued, 0,
                       NULL, NoArgs))

closeCall(t) ==
    /\ At(t, "idle")
    /\ IF channel # NULL THEN CloseChannelIssued(t)
       ELSE IF connection # NULL THEN CloseConnectionIssued(t, <<>>)
       ELSE CloseReturns(t, <<>>)
    /\ UNCHANGED <<connection, channel, transport, errorListener, topology,
                   dispatch, registry, notification>>

\* channel.close() resolved: this.channel = null; then the connection branch.
channelClosed(t) ==
    /\ At(t, "close_channel")
    /\ chanState[task[t].tch] = "live"
    /\ chanState' = [chanState EXCEPT ![task[t].tch] = "closed"]
    /\ channel' = NULL
    /\ IF connection # NULL THEN CloseConnectionIssued(t, task[t].issued)
       ELSE CloseReturns(t, task[t].issued)
    /\ delivery' = RequeuedOn(chanState')
    /\ UNCHANGED <<connection, connState, chanConn, closedNotified,
                   errorListener, topology, variant, consumerChan, cancelled,
                   registry, notification>>

\* channel.close() threw (the channel is already closed): the catch block runs
\* and the connection branch is skipped.
channelCloseFailed(t) ==
    /\ At(t, "close_channel")
    /\ chanState[task[t].tch] # "live"
    /\ Caught(t, "closeConnection", NoArgs, "channelCloseFailed", task[t].issued, 1)
    /\ UNCHANGED <<connection, channel, transport, errorListener, topology,
                   dispatch, registry, notification>>

\* connection.close() resolved: the connection's "close" event has fired (the
\* observer ran), then this.connection = null.
connectionClosed(t) ==
    /\ At(t, "close_connection")
    /\ connState[task[t].tconn] = "live"
    /\ connState' = [connState EXCEPT ![task[t].tconn] = "closed"]
    /\ chanState' = ClosedChans(task[t].tconn)
    /\ CloseObserver(task[t].tconn)
    /\ CloseReturns(t, task[t].issued)
    /\ delivery' = RequeuedOn(chanState')
    /\ UNCHANGED <<chanConn, errorListener, topology, variant, consumerChan,
                   cancelled, registry, notification>>

\* connection.close() threw (the connection is already closed).
connectionCloseFailed(t) ==
    /\ At(t, "close_connection")
    /\ connState[task[t].tconn] # "live"
    /\ Caught(t, "closeConnection", NoArgs, "connectionCloseFailed", task[t].issued, 1)
    /\ UNCHANGED <<connection, channel, transport, errorListener, topology,
                   dispatch, registry, notification>>

----------------------------------------------------------------------------
\* The promise an invocation returned has settled: the caller's continuation
\* runs (as a microtask, before any other event) and takes the result.
observe ==
    /\ last # NoResult
    /\ last' = NoResult
    /\ UNCHANGED <<connection, channel, transport, errorListener, topology,
                   dispatch, registry, task, notification>>

Events ==
    \/ \E t \in Tasks : initConnected(t)
    \/ \E t \in Tasks : initConnectFailed(t)
    \/ \E t \in Tasks : initChannelCreated(t)
    \/ \E t \in Tasks : initChannelFailed(t)
    \/ \E t \in Tasks : ensureCreated(t)
    \/ \E t \in Tasks : ensureCreateFailed(t)
    \/ \E t \in Tasks : opCallAccepted(t)
    \/ \E t \in Tasks : opCallRejected(t)
    \/ \E t \in Tasks : opCallOnClosed(t)
    \/ \E t \in Tasks : channelClosed(t)
    \/ \E t \in Tasks : channelCloseFailed(t)
    \/ \E t \in Tasks : connectionClosed(t)
    \/ \E t \in Tasks : connectionCloseFailed(t)
    \/ \E c \in ConnIds : ConnectionClosed(c)
    \/ Subscribe
    \/ observe

\* Callers may start a call at any time, also while another is in flight.
Next ==
    \/ \E t \in Tasks, url \in Urls : initCall(t, url)
    \/ \E t \in Tasks, kind \in OpKinds : opCall(t, kind)
    \/ \E t \in Tasks : closeCall(t)
    \/ Events

Spec == Init /\ [][Next]_vars

\* Callers that await each call before making the next: a call starts only
\* when no invocation is in flight; connections can still be lost, and
\* subscribers attached, between any two steps.
Quiet == \A t \in Tasks : task[t].pc = "idle"

SeqNext ==
    \/ \E t \in Tasks, url \in Urls : Quiet /\ initCall(t, url)
    \/ \E t \in Tasks, kind \in OpKinds : Quiet /\ opCall(t, kind)
    \/ \E t \in Tasks : Quiet /\ closeCall(t)
    \/ Events

SeqSpec == Init /\ [][SeqNext]_vars

----------------------------------------------------------------------------
\* The delivery callback registered by consume, in its two variants:
\*   delegated (src/dist/broker.js)        managed (src/unnamed/part_002)
\*     if (msg !== null) {                   if (msg !== null) {
\*       try {                                 try {
\*         yield onMessage(msg, channel);        yield onMessage(msg);
\*       } catch (err) {                         this.channel.ack(msg);
\*         this.emit("error", err);            } catch (err) {
\*       }                                       this.channel.nack(msg, false, true);
\*     }                                       }
\*                                           }
\* The fields of delivery[m]: state is where the broker has the message
\* ("ready" in the queue, "unacked" with the consumer, "acked", "dead");
\* handler and result are the handler invocation of its current delivery;
\* given is the channel handed to the handler; dAck and dNack count the ack
\* and nack calls the callback made for this delivery, hAck those the handler
\* made; notified and escaped count the failures of this delivery that
\* reached an "error" subscriber, or left the callback uncaught; count,
\* fails and requeues count, over all deliveries, the deliveries, the failed
\* handler invocations and the nack calls with requeue the callback made.

\* A consumer is registered on a live channel, on a queue that holds the
\* messages; the connection was opened by init.
DispatchInit ==
    /\ connection = 1
    /\ channel = 1
    /\ connState = [c \in ConnIds |-> IF c = 1 THEN "live" ELSE "unopened"]
    /\ chanState = [h \in ChanIds |-> IF h = 1 THEN "live" ELSE "unopened"]
    /\ chanConn = [h \in ChanIds |-> IF h = 1 THEN 1 ELSE NULL]
    /\ closedNotified = [c \in ConnIds |-> 0]
    /\ errorListener = FALSE
    /\ exchanges = [x \in ExchangeNames |-> "absent"]
    /\ queues = [q \in QueueNames |-> IF q = "jobs" THEN "plain" ELSE "absent"]
    /\ bindings = {}
    /\ variant \in Variants
    /\ consumerChan = 1
    /\ delivery = [m \in Deliverable |->
                     IF m \in Msgs THEN [NoDelivery EXCEPT !.state = "ready"]
                     ELSE NoDelivery]
    /\ cancelled = FALSE
    /\ instance = 1
    /\ constructed = 1
    /\ ref = [t \in Tasks |-> 1]
    /\ observing = NULL
    /\ publishing = NoPublish
    /\ published = NoNotice
    /\ task = [t \in Tasks |-> IdleTask]
    /\ last = NoResult

\* (mutant) a callback that does not look at what it is called with.
IsDeliveryAlways(msg) == TRUE

\* if (msg !== null)
IsDelivery(msg) == msg # NULL

\* (mutant) every callback acknowledges for the handler.
AcknowledgesAlways == TRUE

\* The callback acknowledges for the handler (managed) or leaves it to the
\* handler (delegated).
Acknowledges == variant = "managed"

\* The callback is called with msg: the handler is invoked for a message, in
\* the delegated variant with the channel captured at registration.
Callback(msg, d) ==
    IF IsDelivery(msg)
    THEN [d EXCEPT !.handler = "running", !.result = "none",
                   !.given = IF variant = "delegated" THEN consumerChan ELSE NULL]
    ELSE d

\* The consumer is registered, its channel is live and it was not cancelled.
Subscribed ==
    /\ consumerChan # NULL
    /\ chanState[consumerChan] = "live"
    /\ ~cancelled

\* The broker delivers message m to the consumer; no prefetch limit is set,
\* so it does not wait for earlier deliveries to be acknowledged, and the
\* promise the callback returns is not awaited by the channel.
deliver(m) ==
    /\ Subscribed
    /\ delivery[m].state = "ready"
    /\ delivery[m].handler = "idle"
    /\ delivery[m].count < MaxDeliveries
    /\ delivery' = [delivery EXCEPT ![m] =
                      Callback(m, [@ EXCEPT !.state = "unacked",
                                            !.count = @ + 1,
                                            !.dAck = 0, !.dNack = 0, !.hAck = 0,
                                            !.notified = 0, !.escaped = 0])]
    /\ UNCHANGED <<connection, channel, transport, errorListener, topology,
                   variant, consumerChan, cancelled, registry, task, last,
                   notification>>

\* The broker cancels the consumer: the callback is called with null.
cancel ==
    /\ Subscribed
    /\ cancelled' = TRUE
    /\ delivery' = [delivery EXCEPT ![NULL] = Callback(NULL, @)]
    /\ UNCHANGED <<connection, channel, transport, errorListener, topology,
                   variant, consumerChan, registry, task, last,
                   notification>>

\* Delegated variant: the handler acknowledges the message on the channel it
\* was given.
onMessageAcks(m) ==
    /\ delivery[m].handler = "running"
    /\ delivery[m].state = "unacked"
    /\ delivery[m].given # NULL
    /\ chanState[delivery[m].given] = "live"
    /\ delivery' = [delivery EXCEPT ![m].state = "acked", ![m].hAck = @ + 1]
    /\ UNCHANGED <<connection, channel, transport, errorListener, topology,
                   variant, consumerChan, cancelled, registry, task, last,
                   notification>>

\* this.channel.nack(msg, false, true) in the catch block of the managed
\* variant: a TypeError when this.channel is null, an IllegalOperationError
\* when the channel is closed; either leaves the callback uncaught.
ManagedNack(d) ==
    IF channel = NULL THEN [d EXCEPT !.escaped = @ + 1]
    ELSE IF chanState[channel] # "live"
    THEN [d EXCEPT !.dNack = @ + 1, !.requeues = @ + 1, !.escaped = @ + 1]
    ELSE [d EXCEPT !.dNack = @ + 1, !.requeues = @ + 1, !.state = "ready"]

\* this.channel.ack(msg) after the handler returned; when it throws, the
\* catch block of the same try statement runs.
ManagedAck(d) ==
    IF channel = NULL THEN ManagedNack(d)
    ELSE IF chanState[channel] # "live"
    THEN ManagedNack([d EXCEPT !.dAck = @ + 1])
    ELSE [d EXCEPT !.dAck = @ + 1, !.state = "acked"]

\* catch (err) { this.emit("error", err); } of the delegated variant.
DelegatedCatch(d) ==
    IF EmitThrows THEN [d EXCEPT !.escaped = @ + 1]
    ELSE [d EXCEPT !.notified = @ + 1]

\* The promise of onMessage resolved.
onMessageResolved(m) ==
    /\ delivery[m].handler = "running"
    /\ LET d == [delivery[m] EXCEPT !.handler = "idle", !.result = "resolved"]
       IN  delivery' = [delivery EXCEPT ![m] =
                          IF Acknowledges THEN ManagedAck(d) ELSE d]
    /\ UNCHANGED <<connection, channel, transport, errorListener, topology,
                   variant, consumerChan, cancelled, registry, task, last,
                   notification>>

\* The promise of onMessage rejected (or onMessage threw).
onMessageRejected(m) ==
    /\ delivery[m].handler = "running"
    /\ LET d == [delivery[m] EXCEPT !.handler = "idle", !.result = "rejected",
                                    !.fails = @ + 1]
       IN  delivery' = [delivery EXCEPT ![m] =
                          IF Acknowledges THEN ManagedNack(d)
                          ELSE DelegatedCatch(d)]
    /\ UNCHANGED <<connection, channel, transport, errorListener, topology,
                   variant, consumerChan, cancelled, registry, task, last,
                   notification>>

\* Broker: when a channel closes, its unacknowledged messages go back to
\* the queue.
Requeued ==
    [m \in Deliverable |->
        IF delivery[m].state = "unacked"
        THEN [delivery[m] EXCEPT !.state = "ready"] ELSE delivery[m]]

\* The connection of the consumer is closed by the broker.  Only the
\* delegated variant has registered a close observer in init.
connectionLost ==
    /\ consumerChan # NULL
    /\ chanState[consumerChan] = "live"
    /\ LET c == chanConn[consumerChan]
       IN  /\ connState' = [connState EXCEPT ![c] = "lost"]
           /\ chanState' = ClosedChans(c)
           /\ IF variant = "delegated" THEN CloseObserver(c)
              ELSE UNCHANGED <<connection, channel, closedNotified>>
    /\ delivery' = Requeued
    /\ UNCHANGED <<chanConn, errorListener, topology, variant, consumerChan,
                   cancelled, registry, task, last, notification>>

\* closeConnection() is called while the consumer is registered, and both
\* of its closes succeed: the channel and the connection are closed and
\* both fields set to null.
closedByCaller ==
    /\ channel # NULL
    /\ chanState[channel] = "live"
    /\ connection # NULL
    /\ connState[connection] = "live"
    /\ connState' = [connState EXCEPT ![connection] = "closed"]
    /\ chanState' = ClosedChans(connection)
    /\ closedNotified' = IF variant = "delegated"
                         THEN [closedNotified EXCEPT ![connection] = @ + 1]
                         ELSE closedNotified
    /\ connection' = NULL
    /\ channel' = NULL
    /\ delivery' = Requeued
    /\ UNCHANGED <<chanConn, errorListener, topology, variant, consumerChan,
                   cancelled, registry, task, last, notification>>

DispatchNext ==
    \/ \E m \in Msgs : deliver(m)
    \/ cancel
    \/ \E m \in Deliverable : onMessageAcks(m)
    \/ \E m \in Deliverable : onMessageResolved(m)
    \/ \E m \in Deliverable : onMessageRejected(m)
    \/ connectionLost
    \/ closedByCaller
    \/ Subscribe

DispatchSpec == DispatchInit /\ [][DispatchNext]_vars

----------------------------------------------------------------------------
\* static getInstance(), starting before the first call of it.

SingletonInit ==
    /\ connection = NULL
    /\ channel = NULL
    /\ connState = [c \in ConnIds |-> "unopened"]
    /\ chanState = [h \in ChanIds |-> "unopened"]
    /\ chanConn = [h \in ChanIds |-> NULL]
    /\ closedNotified = [c \in ConnIds |-> 0]
    /\ errorListener = FALSE
    /\ exchanges = [x \in ExchangeNames |-> "absent"]
    /\ queues = [q \in QueueNames |-> "absent"]
    /\ bindings = {}
    /\ variant = "delegated"
    /\ consumerChan = NULL
    /\ delivery = [m \in Deliverable |-> NoDelivery]
    /\ cancelled = FALSE
    /\ instance = NULL
    /\ constructed = 0
    /\ ref = [t \in Tasks |-> NULL]
    /\ observing = NULL
    /\ publishing = NoPublish
    /\ published = NoNotice
    /\ task = [t \in Tasks |-> IdleTask]
    /\ last = NoResult

\* (mutant) getInstance constructs on every call.
InstanceMissingAlways == TRUE

\* if (!RabbitMQBroker.instance)
InstanceMissing == instance = NULL

\* RabbitMQBroker.instance = new RabbitMQBroker(): the fields of the new
\* object are null.
Construct ==
    /\ constructed < MaxInstances
    /\ constructed' = constructed + 1
    /\ instance' = constructed + 1
    /\ connection' = NULL
    /\ channel' = NULL

\* getInstance(): synchronous, returns RabbitMQBroker.instance.
getInstance(t) ==
    /\ At(t, "idle")
    /\ IF InstanceMissing THEN Construct
       ELSE UNCHANGED <<instance, constructed, connection, channel>>
    /\ ref' = [ref EXCEPT ![t] = instance']
    /\ UNCHANGED <<transport, errorListener, topology, dispatch, task, last, notification>>

\* Caller t has obtained the instance.
Holds(t) == ref[t] # NULL

SingletonNext ==
    \/ \E t \in Tasks : getInstance(t)
    \/ \E t \in Tasks, url \in Urls : Quiet /\ Holds(t) /\ initCall(t, url)
    \/ \E t \in Tasks : Quiet /\ Holds(t) /\ closeCall(t)
    \/ \E t \in Tasks : initConnected(t)
    \/ \E t \in Tasks : initConnectFailed(t)
    \/ \E t \in Tasks : initChannelCreated(t)
    \/ \E t \in Tasks : initChannelFailed(t)
    \/ \E t \in Tasks : channelClosed(t)
    \/ \E t \in Tasks : channelCloseFailed(t)
    \/ \E t \in Tasks : connectionClosed(t)
    \/ \E t \in Tasks : connectionCloseFailed(t)
    \/ \E c \in ConnIds : ConnectionClosed(c)
    \/ observe

SingletonSpec == SingletonInit /\ [][SingletonNext]_vars

----------------------------------------------------------------------------
\* Callers that do not await: an operation is started while others are in
\* flight.

\* The operations such callers start.
ConcurrentKinds == {"setupQueue"}

ConcurrentNext ==
    \/ \E t \in Tasks, url \in Urls : initCall(t, url)
    \/ \E t \in Tasks, kind \in ConcurrentKinds : opCall(t, kind)
    \/ \E t \in Tasks : closeCall(t)
    \/ \E t \in Tasks : initConnected(t)
    \/ \E t \in Tasks : initConnectFailed(t)
    \/ \E t \in Tasks : initChannelCreated(t)
    \/ \E t \in Tasks : initChannelFailed(t)
    \/ \E t \in Tasks : ensureCreated(t)
    \/ \E t \in Tasks : ensureCreateFailed(t)
    \/ \E t \in Tasks : opCallAccepted(t)
    \/ \E t \in Tasks : opCallOnClosed(t)
    \/ \E t \in Tasks : channelClosed(t)
    \/ \E t \in Tasks : channelCloseFailed(t)
    \/ \E t \in Tasks : connectionClosed(t)
    \/ \E t \in Tasks : connectionCloseFailed(t)
    \/ \E c \in ConnIds : ConnectionClosed(c)
    \/ Subscribe
    \/ observe

ConcurrentSpec == Init /\ [][ConcurrentNext]_vars

----------------------------------------------------------------------------
\* A consumer over the life of the instance: consume registers the delegated
\* callback on the channel of the moment, and the broker delivers to it
\* while that channel lives.

\* A new instance; the broker holds the queue "jobs" with one message in it.
ConsumerInit ==
    /\ connection = NULL
    /\ channel = NULL
    /\ connState = [c \in ConnIds |-> "unopened"]
    /\ chanState = [h \in ChanIds |-> "unopened"]
    /\ chanConn = [h \in ChanIds |-> NULL]
    /\ closedNotified = [c \in ConnIds |-> 0]
    /\ errorListener = FALSE
    /\ exchanges = [x \in ExchangeNames |-> "absent"]
    /\ queues = [q \in QueueNames |-> IF q = "jobs" THEN "plain" ELSE "absent"]
    /\ bindings = {}
    /\ variant = "delegated"
    /\ consumerChan = NULL
    /\ delivery = [m \in Deliverable |->
                     IF m = 1 THEN [NoDelivery EXCEPT !.state = "ready"]
                     ELSE NoDelivery]
    /\ cancelled = FALSE
    /\ instance = 1
    /\ constructed = 1
    /\ ref = [t \in Tasks |-> 1]
    /\ observing = NULL
    /\ publishing = NoPublish
    /\ published = NoNotice
    /\ task = [t \in Tasks |-> IdleTask]
    /\ last = NoResult

ConsumerNext ==
    \/ \E t \in Tasks, url \in Urls : Quiet /\ initCall(t, url)
    \/ \E t \in Tasks : Quiet /\ opCall(t, "consume")
    \/ \E t \in Tasks : Quiet /\ closeCall(t)
    \/ \E t \in Tasks : initConnected(t)
    \/ \E t \in Tasks : initConnectFailed(t)
    \/ \E t \in Tasks : initChannelCreated(t)
    \/ \E t \in Tasks : initChannelFailed(t)
    \/ \E t \in Tasks : ensureCreated(t)
    \/ \E t \in Tasks : ensureCreateFailed(t)
    \/ \E t \in Tasks : opCallAccepted(t)
    \/ \E t \in Tasks : opCallOnClosed(t)
    \/ \E t \in Tasks : channelClosed(t)
    \/ \E t \in Tasks : channelCloseFailed(t)
    \/ \E t \in Tasks : connectionClosed(t)
    \/ \E t \in Tasks : connectionCloseFailed(t)
    \/ \E c \in ConnIds : ConnectionClosed(c)
    \/ observe
    \/ \E m \in Msgs : deliver(m)
    \/ \E m \in Msgs : onMessageAcks(m)
    \/ \E m \in Msgs : onMessageResolved(m)

ConsumerSpec == ConsumerInit /\ [][ConsumerNext]_vars

----------------------------------------------------------------------------
\* The close listener of init, statement by statement:
\*   this.emit("connectionClosed");   subscribers run here, synchronously
\*   this.connection = null; this.channel = null;

\* The operations a "connectionClosed" subscriber starts.
SubscriberKinds == {"publish"}

\* The connection closes and the listener emits: the subscribers run with
\* the instance as the listener found it.
closeEmitted(c) ==
    /\ last = NoResult
    /\ observing = NULL
    /\ connState[c] = "live"
    /\ connState' = [connState EXCEPT ![c] = "lost"]
    /\ chanState' = ClosedChans(c)
    /\ closedNotified' = [closedNotified EXCEPT ![c] = @ + 1]
    /\ observing' = c
    /\ delivery' = RequeuedOn(chanState')
    /\ UNCHANGED <<connection, channel, chanConn, errorListener, topology,
                   variant, consumerChan, cancelled, registry, publishing,
                   published, task, last>>

\* A subscriber starts an operation from inside the notification; it runs up
\* to its first suspension, ensureChannel included.
subscriberCalls(t, kind) ==
    /\ observing # NULL
    /\ opCall(t, kind)

\* The subscribers have returned: the listener clears both fields.
closeInvalidated ==
    /\ observing # NULL
    /\ connection' = NULL
    /\ channel' = NULL
    /\ observing' = NULL
    /\ UNCHANGED <<transport, errorListener, topology, dispatch, registry,
                   publishing, published, task, last>>

\* No listener is in the middle of its run.
Settled == observing = NULL

ObserverNext ==
    \/ \E t \in Tasks, url \in Urls : Settled /\ Quiet /\ initCall(t, url)
    \/ \E t \in Tasks, kind \in SubscriberKinds :
          Settled /\ Quiet /\ opCall(t, kind)
    \/ \E t \in Tasks : Settled /\ Quiet /\ closeCall(t)
    \/ \E t \in Tasks : Settled /\ initConnected(t)
    \/ \E t \in Tasks : Settled /\ initConnectFailed(t)
    \/ \E t \in Tasks : Settled /\ initChannelCreated(t)
    \/ \E t \in Tasks : Settled /\ initChannelFailed(t)
    \/ \E t \in Tasks : Settled /\ ensureCreated(t)
    \/ \E t \in Tasks : Settled /\ ensureCreateFailed(t)
    \/ \E t \in Tasks : Settled /\ opCallAccepted(t)
    \/ \E t \in Tasks : Settled /\ opCallOnClosed(t)
    \/ \E t \in Tasks : Settled /\ channelClosed(t)
    \/ \E t \in Tasks : Settled /\ connectionClosed(t)
    \/ \E t \in Tasks : Settled /\ connectionCloseFailed(t)
    \/ \E c \in ConnIds : closeEmitted(c)
    \/ \E t \in Tasks, kind \in SubscriberKinds : subscriberCalls(t, kind)
    \/ closeInvalidated
    \/ Settled /\ Subscribe
    \/ Settled /\ observe

ObserverSpec == Init /\ [][ObserverNext]_vars

----------------------------------------------------------------------------
\* The emitter variant (src/unnamed/part_005): publishToQueue and
\* publishToExchange raise "messagePublished" after the send.

Payloads == {"order-1", "order-2"}

\* init has succeeded; the broker may hold a queue "jobs" declared with a
\* dead-letter exchange, or an exchange "events" of another type, from
\* earlier sessions.
PublishedInit ==
    /\ connection = 1
    /\ channel = 1
    /\ connState = [c \in ConnIds |-> IF c = 1 THEN "live" ELSE "unopened"]
    /\ chanState = [h \in ChanIds |-> IF h = 1 THEN "live" ELSE "unopened"]
    /\ chanConn = [h \in ChanIds |-> IF h = 1 THEN 1 ELSE NULL]
    /\ closedNotified = [c \in ConnIds |-> 0]
    /\ errorListener = FALSE
    /\ \E ty \in {"absent", "direct"} :
          exchanges = [x \in ExchangeNames |-> ty]
    /\ \E qa \in {"absent", "events"} :
          queues = [q \in QueueNames |-> IF q = "jobs" THEN qa ELSE "absent"]
    /\ bindings = {}
    /\ variant = "delegated"
    /\ consumerChan = NULL
    /\ delivery = [m \in Deliverable |-> NoDelivery]
    /\ cancelled = FALSE
    /\ instance = 1
    /\ constructed = 1
    /\ ref = [t \in Tasks |-> 1]
    /\ observing = NULL
    /\ publishing = NoPublish
    /\ published = NoNotice
    /\ task = [t \in Tasks |-> IdleTask]
    /\ last = NoResult

\* this.eventEmitter.emit("messagePublished", { queue, message });
QueuePublished(queue, message) ==
    [name |-> "messagePublished", queue |-> queue, exchange |-> "",
     routingKey |-> "", message |-> message]

\* this.eventEmitter.emit("messagePublished",
\*                        { exchange, routingKey, message });
ExchangePublished(exchange, routingKey, message) ==
    [name |-> "messagePublished", queue |-> "", exchange |-> exchange,
     routingKey |-> routingKey, message |-> message]

\* The notification raised for the publish call p.
Notice(p) ==
    IF p.kind = "publishToQueue" THEN QueuePublished(p.queue, p.message)
    ELSE ExchangePublished(p.exchange, p.routingKey, p.message)

\* The declaration the publish call p awaits before it sends.
Declared(p) ==
    IF p.kind = "publishToQueue"
    THEN Call("assertQueue", p.queue, "", "", "", "")
    ELSE Call("assertExchange", "", p.exchange, "topic", "", "")

\* if (!this.channel) throw ...; await this.channel.assertQueue(queue, ...)
publishToQueue(queue, message) ==
    /\ publishing = NoPublish
    /\ channel # NULL
    /\ publishing' = [kind |-> "publishToQueue", queue |-> queue,
                      exchange |-> "", routingKey |-> "", message |-> message]
    /\ UNCHANGED <<connection, channel, transport, errorListener, topology,
                   dispatch, registry, observing, published, task, last>>

\* if (!this.channel) throw ...; await this.channel.assertExchange(...)
publishToExchangeEmitting(exchange, routingKey, message) ==
    /\ publishing = NoPublish
    /\ channel # NULL
    /\ publishing' = [kind |-> "publishToExchange", queue |-> "",
                      exchange |-> exchange, routingKey |-> routingKey,
                      message |-> message]
    /\ UNCHANGED <<connection, channel, transport, errorListener, topology,
                   dispatch, registry, observing, published, task, last>>

\* The declaration is accepted: the payload is sent and the notification
\* raised.
publishDeclared ==
    /\ publishing # NoPublish
    /\ chanState[channel] = "live"
    /\ Accepts(Declared(publishing))
    /\ Applied(Declared(publishing))
    /\ published' = Notice(publishing)
    /\ publishing' = NoPublish
    /\ UNCHANGED <<connection, channel, transport, errorListener, dispatch,
                   registry, observing, task, last>>

\* The declaration is refused (the channel closes) and the call throws.
publishRefused ==
    /\ publishing # NoPublish
    /\ chanState[channel] = "live"
    /\ ~Accepts(Declared(publishing))
    /\ chanState' = [chanState EXCEPT ![channel] = "closed"]
    /\ publishing' = NoPublish
    /\ delivery' = RequeuedOn(chanState')
    /\ UNCHANGED <<connection, channel, connState, chanConn, closedNotified,
                   errorListener, topology, variant, consumerChan, cancelled,
                   registry, observing, published, task, last>>

\* The declaration was issued on a closed channel and the call throws.
publishOnClosed ==
    /\ publishing # NoPublish
    /\ chanState[channel] # "live"
    /\ publishing' = NoPublish
    /\ UNCHANGED <<connection, channel, transport, errorListener, topology,
                   dispatch, registry, observing, published, task, last>>

PublishedNext ==
    \/ \E q \in QueueNames, p \in Payloads : publishToQueue(q, p)
    \/ \E x \in ExchangeNames, k \in RoutingKeys, p \in Payloads :
          publishToExchangeEmitting(x, k, p)
    \/ publishDeclared
    \/ publishRefused
    \/ publishOnClosed

PublishedSpec == PublishedInit /\ [][PublishedNext]_vars

----------------------------------------------------------------------------
\* Steps of ensureChannel, as seen in a transition.

\* Task t enters an operation, and with it ensureChannel, and suspends.
EnsureEntered(t) ==
    task[t].pc = "idle" /\ task'[t].pc # "idle" /\ task'[t].kind \in OpKinds

\* ensureChannel returns a channel to the operation of task t.
EnsureReturned(t) ==
    task[t].pc \in {"idle", "ensure_create"} /\ task'[t].pc = "op_call"

----------------------------------------------------------------------------
\* C1: at most one connection and at most one channel opened by the instance
\* is live at any time.
C1_AtMostOneLive ==
    /\ Cardinality(LiveConns) <= 1
    /\ Cardinality(LiveChans) <= 1

C3_ReturnedChannelLive ==
    [][\A t \in Tasks :
        EnsureReturned(t) => chanState'[task'[t].tch] = "live"]_vars

\* An operation that goes through ensureChannel is called in this step: it
\* suspends, or ensureChannel throws and the call returns at once.
OpCalled ==
    /\ last = NoResult
    /\ \/ \E t \in Tasks : EnsureEntered(t)
       \/ last'.kind \in OpKinds /\ task' = task

\* No connection has been opened yet: no init has got past its connect.
NeverConnected == \A c \in ConnIds : connState[c] = "unopened"

\* C4: with no connection held, ensureChannel fails with the channel-unavailable
\* error, and no operation other than init ever calls the transport's connect.
C4_NoConnectionFails ==
    /\ [][(OpCalled /\ connection = NULL) =>
              (last'.kind \in OpKinds /\ last'.err = "channelUnavailable")]_vars
    /\ [](/\ \A t \in Tasks :
                task[t].kind # "init" => Count("connect", task[t].issued) = 0
          /\ last.kind # "init" => Count("connect", last.issued) = 0)

\* C5: an operation called before any successful init fails towards its caller
\* with the channel-unavailable error and issues no broker call.
C5_FailFastBeforeInit ==
    (last.kind \in OpKinds /\ NeverConnected) =>
        /\ last.outcome = "rejected"
        /\ last.err = "channelUnavailable"
        /\ last.issued = <<>>

\* C6: init with an empty or missing url fails towards its caller, makes no
\* connect attempt and leaves the held connection and channel unchanged.
C6_InitMissingUrlFails ==
    [][(last = NoResult /\ last'.kind = "init" /\ UrlMissing(last'.arg)) =>
          /\ last'.outcome = "rejected"
          /\ last'.err = "urlUndefined"
          /\ last'.issued = <<>>
          /\ UNCHANGED <<connection, channel>>]_vars

\* C7: when the broker rejects the handshake, init fails towards its caller
\* after exactly one connect attempt; no invocation issues a second connect
\* and no operation other than init issues one.
C7_ConnectNotRetried ==
    /\ (last.kind = "init" /\ last.err = "handshakeRejected") =>
          (last.outcome = "rejected" /\ last.issued = <<"connect">>)
    /\ Count("connect", last.issued) <= (IF last.kind = "init" THEN 1 ELSE 0)
    /\ \A t \in Tasks :
          Count("connect", task[t].issued) <= (IF task[t].kind = "init" THEN 1 ELSE 0)

\* C7 witness: an init has just failed because the handshake was rejected.
C7_Witness ==
    last.kind = "init" /\ last.err = "handshakeRejected"

\* C8: when the broker closes a connection, the close observer leaves the
\* instance holding neither connection nor channel and raises exactly one
\* connectionClosed notification for that closure.
C8_CloseObserved ==
    /\ [][\A c \in ConnIds :
            (connState[c] = "live" /\ connState'[c] = "lost") =>
                /\ connection' = NULL
                /\ channel' = NULL
                /\ closedNotified'[c] = closedNotified[c] + 1]_vars
    /\ [](\A c \in ConnIds : connState[c] = "lost" => closedNotified[c] = 1)

\* C8 witness: a connection that carried a channel has been closed by the
\* broker and the observer has run.
C8_Witness ==
    \E c \in ConnIds :
        /\ connState[c] = "lost"
        /\ \E h \in ChanIds : chanConn[h] = c
        /\ closedNotified[c] = 1
        /\ connection = NULL
        /\ channel = NULL

\* C9: an init that succeeds while the instance was already connected leaves
\* the instance holding the new connection and a channel created on it.
C9_ReplacedAsPair ==
    (last.kind = "init" /\ last.outcome = "resolved" /\ ~UrlMissing(last.arg)
        /\ last.entryConn # NULL) =>
        /\ connection # NULL
        /\ connection # last.entryConn
        /\ channel # NULL
        /\ chanConn[channel] = connection

\* C10: when closing the channel fails, closeConnection still attempts to
\* close the connection it holds in the same call.
C10_ConnectionCloseAttempted ==
    (last.kind = "closeConnection" /\ last.err = "channelCloseFailed"
        /\ connection # NULL) =>
        Count("connection.close", last.issued) = 1

----------------------------------------------------------------------------
\* closeConnection is called in this step.
CloseCalled(t) ==
    /\ last = NoResult
    /\ task[t].pc = "idle"
    /\ \/ task'[t].kind = "closeConnection"
       \/ last'.kind = "closeConnection" /\ task' = task

\* C11: closeConnection never fails towards its caller: whatever fails, and
\* whether or not a subscriber is attached, the call completes normally and
\* the failure is delivered to the subscriber as an error notification.
C11_CloseNeverFails ==
    last.kind = "closeConnection" =>
        /\ last.outcome = "resolved"
        /\ (last.err # "none" /\ errorListener) => last.errors = 1

\* C12: closeConnection is idempotent.  A closeConnection that has returned
\* leaves nothing held, and a closeConnection called with nothing held
\* returns at once with no broker call, no error and no change of state.
C12_CloseIdempotent ==
    /\ [](last.kind = "closeConnection" => (channel = NULL /\ connection = NULL))
    /\ [][\A t \in Tasks :
            (CloseCalled(t) /\ channel = NULL /\ connection = NULL) =>
                /\ last'.kind = "closeConnection"
                /\ last'.outcome = "resolved"
                /\ last'.err = "none"
                /\ last'.issued = <<>>
                /\ last'.errors = 0
                /\ UNCHANGED <<connection, channel, transport, topology>>]_vars

\* The calls of an invocation that follow ensureChannel.
AfterEnsure(issued) ==
    IF issued # <<>> /\ issued[1] = "createChannel" THEN Tail(issued) ELSE issued

\* C13: setupDeadLetterQueue issues four broker calls in this order, each
\* after the one before was accepted: declare exchange dlx of dlxType (topic
\* by default), declare queue dlq, bind dlq to dlx with dlqRoutingKey ("#" by
\* default), declare `queue` with dead-letter exchange dlx.  A queue that
\* names a dead-letter exchange exists only when that exchange exists and a
\* queue is bound to it.
C13_DeadLetterOrder ==
    /\ [][\A t \in Tasks :
            (/\ task'[t].kind = "setupDeadLetterQueue"
             /\ task'[t].pc = "op_call"
             /\ task'[t] # task[t]) =>
                LET a == task'[t].args
                    k == task'[t].step
                    sent == Calls(task'[t].kind, a)[k]
                    dlxType == IF a.type = "undefined" THEN "topic" ELSE a.type
                    key == IF a.key = "undefined" THEN "#" ELSE a.key
                IN  /\ k \in 1..4
                    /\ k = 1 =>
                          /\ task[t].pc \in {"idle", "ensure_create"}
                          /\ sent = [m |-> "assertExchange", queue |-> "",
                                     exchange |-> a.exchange, type |-> dlxType,
                                     key |-> "", dlx |-> ""]
                    /\ k = 2 =>
                          /\ task[t].pc = "op_call" /\ task[t].step = 1
                          /\ exchanges'[a.exchange] = dlxType
                          /\ sent = [m |-> "assertQueue", queue |-> a.dlq,
                                     exchange |-> "", type |-> "", key |-> "",
                                     dlx |-> ""]
                    /\ k = 3 =>
                          /\ task[t].pc = "op_call" /\ task[t].step = 2
                          /\ queues'[a.dlq] = "plain"
                          /\ sent = [m |-> "bindQueue", queue |-> a.dlq,
                                     exchange |-> a.exchange, type |-> "",
                                     key |-> key, dlx |-> ""]
                    /\ k = 4 =>
                          /\ task[t].pc = "op_call" /\ task[t].step = 3
                          /\ <<a.dlq, a.exchange, key>> \in bindings'
                          /\ sent = [m |-> "assertQueue", queue |-> a.queue,
                                     exchange |-> "", type |-> "", key |-> "",
                                     dlx |-> a.exchange]]_vars
    /\ [](/\ (last.kind = "setupDeadLetterQueue" /\ last.err = "none") =>
                AfterEnsure(last.issued) =
                    <<"assertExchange", "assertQueue", "bindQueue", "assertQueue">>
          /\ \A q \in QueueNames :
                queues[q] \in ExchangeNames =>
                    /\ exchanges[queues[q]] # "absent"
                    /\ \E d \in QueueNames, k \in RoutingKeys :
                          /\ queues[d] # "absent"
                          /\ <<d, queues[q], k>> \in bindings)

\* C13 witness: a setupDeadLetterQueue has completed and the primary queue
\* carries the dead-letter exchange.
C13_Witness ==
    /\ last.kind = "setupDeadLetterQueue"
    /\ last.err = "none"
    /\ queues[last.args.queue] = last.args.exchange

\* The operations that declare topology or publish.
TopologyKinds == {"assertExchange", "setupQueue", "bindQueue", "setupDeadLetterQueue"}
PublishKinds == {"publish", "publishToExchange"}

\* The channel exceptions of the broker.
Refusals == {"preconditionFailed", "notFound"}

\* s is an initial part of u.
IsPrefix(s, u) == Len(s) <= Len(u) /\ s = SubSeq(u, 1, Len(s))

\* C14: when the broker rejects a step of setupDeadLetterQueue, no later step
\* is issued, the step is not retried, and the call fails towards its caller.
C14_PartialFailureSurfaced ==
    (last.kind = "setupDeadLetterQueue" /\ last.err \in Refusals) =>
        /\ IsPrefix(AfterEnsure(last.issued),
                    <<"assertExchange", "assertQueue", "bindQueue", "assertQueue">>)
        /\ last.outcome = "rejected"

\* C15: every failure of a topology or publish operation both fails the call
\* towards its caller and is delivered to the subscriber, when there is one,
\* as an error notification.
C15_FailureOnBothPaths ==
    (last.kind \in TopologyKinds \cup PublishKinds /\ last.err # "none") =>
        /\ last.outcome = "rejected"
        /\ errorListener => last.errors >= 1

\* C16: with no subscriber attached to the error notification, every failure
\* of init, of a publish and of a topology call is a failure of the call.
C16_UnsubscribedCallerSeesFailure ==
    (/\ ~errorListener
     /\ last.kind \in {"init"} \cup PublishKinds \cup TopologyKinds
     /\ last.err # "none") =>
        last.outcome = "rejected"

\* C16 witness: with no subscriber attached, the broker has refused a
\* declaration of a publish or topology call, and the call was rejected.
C16_Witness ==
    /\ ~errorListener
    /\ last.kind \in PublishKinds \cup TopologyKinds
    /\ last.err \in Refusals
    /\ last.outcome = "rejected"

\* The entity a call declares exists already, with the properties asked for.
AlreadyDeclared(c) ==
    CASE c.m = "assertExchange" -> exchanges[c.exchange] = c.type
      [] c.m = "assertQueue" -> queues[c.queue] = (IF c.dlx = "" THEN "plain" ELSE c.dlx)
      [] c.m = "bindQueue" -> <<c.queue, c.exchange, c.key>> \in bindings
      [] OTHER -> FALSE

\* The one call setupQueue, assertExchange and bindQueue make for arguments a.
Declaration(kind, a) ==
    CASE kind = "setupQueue" ->
            [m |-> "assertQueue", queue |-> a.queue, exchange |-> "",
             type |-> "", key |-> "", dlx |-> ""]
      [] kind = "assertExchange" ->
            [m |-> "assertExchange", queue |-> "", exchange |-> a.exchange,
             type |-> a.type, key |-> "", dlx |-> ""]
      [] kind = "bindQueue" ->
            [m |-> "bindQueue", queue |-> a.queue, exchange |-> a.exchange,
             type |-> "", key |-> a.key, dlx |-> ""]

C18_DeclareBeforeSend ==
    /\ last.kind = "publish" =>
          IF last.err = "none"
          THEN /\ AfterEnsure(last.issued) = <<"assertQueue", "sendToQueue">>
               /\ queues[last.args.queue] # "absent"
          ELSE Count("sendToQueue", last.issued) = 0
    /\ \A t \in Tasks : Count("sendToQueue", task[t].issued) = 0

\* C18 witness: the broker refused the declaration of a publish.
C18_Witness ==
    /\ last.kind = "publish"
    /\ last.err = "preconditionFailed"
    /\ last.issued # <<>>

\* C19: the declaration made by publish never meets a conflict, however the
\* queue was declared before.
C19_ReassertNeverConflicts ==
    last.kind = "publish" => last.err # "preconditionFailed"

\* C20: publishToExchange on an exchange that exists with another type fails
\* towards its caller and publishes nothing.
C20_TypeConflictFails ==
    (last.kind = "publishToExchange" /\ last.err = "preconditionFailed") =>
        /\ last.outcome = "rejected"
        /\ Count("publish", last.issued) = 0

----------------------------------------------------------------------------
\* The notifications of the given name an invocation delivered: the
\* operations of this class emit "error" from their catch blocks and nothing
\* else; "connectionClosed" comes from the close observer alone.
Raised(res, name) == IF name = "error" THEN res.errors ELSE 0

\* The invocation sent its payload.
Sent(res) == Count(Trailing(res.kind)[1], res.issued) = 1

\* C21: a publish or publishToExchange that sends its payload raises exactly
\* one messagePublished notification, and one that fails raises none.
C21_PublishNotified ==
    last.kind \in PublishKinds =>
        Raised(last, "messagePublished") = (IF Sent(last) THEN 1 ELSE 0)

\* The handler invocation of the current delivery of m has completed.
Handled(m, result) ==
    delivery[m].handler = "idle" /\ delivery[m].result = result

\* C22: managed acknowledgment.  After the handler succeeded the callback
\* has acknowledged the message once and not negatively acknowledged it;
\* after the handler failed it has negatively acknowledged it once, with
\* requeue, and not acknowledged it.
C22_ManagedAck ==
    variant = "managed" =>
        \A m \in Msgs :
            /\ Handled(m, "resolved") =>
                  (delivery[m].dAck = 1 /\ delivery[m].dNack = 0)
            /\ Handled(m, "rejected") =>
                  (delivery[m].dNack = 1 /\ delivery[m].dAck = 0)

\* C23: delegated acknowledgment.  The callback issues no ack and no nack,
\* whatever the handler does, and a message whose handler failed is
\* acknowledged only if the handler acknowledged it on the channel it got.
C23_DelegatedAck ==
    variant = "delegated" =>
        \A m \in Msgs :
            /\ delivery[m].dAck = 0
            /\ delivery[m].dNack = 0
            /\ (delivery[m].result = "rejected" /\ delivery[m].hAck = 0) =>
                  delivery[m].state \in {"unacked", "ready"}
            /\ delivery[m].state = "acked" => delivery[m].hAck = 1

\* C23 witness: in the delegated variant one handler failed without
\* acknowledging and its message is still unacknowledged, and another
\* acknowledged its message and returned.
C23_Witness ==
    /\ variant = "delegated"
    /\ \E m \in Msgs :
          /\ Handled(m, "rejected")
          /\ delivery[m].hAck = 0
          /\ delivery[m].state = "unacked"
    /\ \E m \in Msgs :
          /\ Handled(m, "resolved")
          /\ delivery[m].hAck = 1
          /\ delivery[m].state = "acked"

\* C24: a failure of the handler is contained by the callback: it does not
\* leave the callback uncaught, with or without a subscriber, and it is
\* delivered as one error notification.
C24_HandlerFailureContained ==
    variant = "delegated" =>
        \A m \in Msgs :
            Handled(m, "rejected") =>
                (delivery[m].escaped = 0 /\ delivery[m].notified = 1)

\* C25: a null delivery invokes no handler and causes no ack, no nack and no
\* notification, in both variants.
C25_NullIgnored ==
    /\ [](delivery[NULL] = NoDelivery)
    /\ [][cancelled' # cancelled => UNCHANGED <<delivery, last, transport>>]_vars

\* C25 witness: the callback has been called with null, in either variant,
\* while the handler of a message was running.
C25_Witness ==
    /\ cancelled
    /\ \E m \in Msgs : delivery[m].handler = "running"

\* C26: the handler invocations of one subscription do not overlap.
C26_HandlersDoNotOverlap ==
    Cardinality({m \in Msgs : delivery[m].handler = "running"}) <= 1

\* C27: every broker call of an operation is issued on the channel the
\* instance holds at that moment.
C27_FreshChannelPerCall ==
    [][\A t \in Tasks :
        (task'[t].pc = "op_call" /\ task'[t].issued # task[t].issued) =>
            task'[t].tch = channel']_vars

\* The connection that task t is working on has closed under it.
ClosedUnder(t) ==
    \/ /\ task[t].pc = "op_call"
       /\ chanState[task[t].tch] # "live"
       /\ connState[chanConn[task[t].tch]] \in {"lost", "closed"}
    \/ /\ task[t].pc \in {"ensure_create", "init_create"}
       /\ connState[task[t].tconn] \in {"lost", "closed"}

\* C28: an operation that is in progress when its connection closes ends
\* with a failure, never reporting success.
C28_InProgressFails ==
    [][\A t \in Tasks :
        (ClosedUnder(t) /\ task'[t].pc = "idle") =>
            (last'.outcome = "rejected" /\ last'.err # "none")]_vars

\* C29: managed acknowledgment, no dead-letter cap.  A message whose handler
\* has failed on every delivery so far has been negatively acknowledged with
\* requeue on each of them, and is neither acknowledged nor discarded.
C29_PoisonRetried ==
    variant = "managed" =>
        \A m \in Msgs :
            (/\ delivery[m].handler = "idle"
             /\ delivery[m].count > 0
             /\ delivery[m].fails = delivery[m].count) =>
                /\ delivery[m].requeues = delivery[m].count
                /\ delivery[m].state \notin {"acked", "dead"}

\* C30: getInstance constructs at most one object, returns the same one to
\* every caller, and a later call leaves the object and its connection and
\* channel as they are.
C30_Singleton ==
    /\ [](constructed <= 1)
    /\ [](\A t \in Tasks : ref[t] # NULL => ref[t] = instance)
    /\ [][instance # NULL =>
            (instance' = instance /\ constructed' = constructed)]_vars
    /\ [][(ref' # ref /\ instance # NULL) =>
            UNCHANGED <<connection, channel, transport>>]_vars

\* C30 witness: both callers hold the instance, obtained by separate calls,
\* and it is connected.
C30_Witness ==
    /\ \A t \in Tasks : ref[t] = instance
    /\ instance # NULL
    /\ connection # NULL
    /\ channel # NULL

----------------------------------------------------------------------------
\* The instance holds connection c with a channel created on it, as after an
\* init that succeeded.
HoldsPair(c) ==
    /\ connection = c
    /\ channel # NULL
    /\ chanConn[channel] = c

\* C31: the close observer invalidates only its own connection.  The close
\* event of a connection that init has replaced leaves the connection and
\* the channel the instance holds now as they are.
C31_ObserverOwnConnection ==
    [][\A c, d \in ConnIds :
        (/\ c # d
         /\ HoldsPair(d)
         /\ connState[c] = "live"
         /\ connState'[c] = "lost") =>
            (connection' = connection /\ channel' = channel)]_vars

\* C33: in every state a held channel comes with a held connection, and was
\* created on that connection.
C33_ChannelOnHeldConnection ==
    channel # NULL => (connection # NULL /\ chanConn[channel] = connection)

\* No connection of the instance has been closed so far.
NothingClosed == \A c \in ConnIds : closedNotified[c] = 0

\* C36: an init that fails, at connect or at createChannel, leaves the
\* instance holding what it held when the call was made.
C36_FailedInitRollsBack ==
    (/\ last.kind = "init"
     /\ last.outcome = "rejected"
     /\ last.err \in {"handshakeRejected", "createChannelFailed"}
     /\ NothingClosed) =>
        connection = last.entryConn

\* C37: the step in which closeConnection completes, whatever the outcome of
\* the two closes, leaves neither a channel nor a connection held.
C37_CloseAlwaysReleases ==
    [][(last = NoResult /\ last'.kind = "closeConnection") =>
          (channel' = NULL /\ connection' = NULL)]_vars

\* C38: in the managed variant the callback never issues both an ack and a
\* nack for one delivery, and no failure leaves the callback uncaught, also
\* when the channel was closed or dropped while the handler ran.
C38_ManagedAckExclusive ==
    variant = "managed" =>
        \A m \in Msgs :
            /\ ~(delivery[m].dAck > 0 /\ delivery[m].dNack > 0)
            /\ delivery[m].escaped = 0

\* An operation is started in this step by task t.
Started(t) ==
    /\ task[t].pc = "idle"
    /\ \/ task'[t].pc # "idle"
       \/ last = NoResult /\ last' # NoResult /\ task' = task

\* C32: while a connectionClosed notification is being delivered the
\* instance holds neither connection nor channel, and an operation started
\* by the subscriber fails at once with channel-unavailable.
C32_InvalidatedBeforeNotified ==
    /\ [](observing # NULL => (connection = NULL /\ channel = NULL))
    /\ [][\A t \in Tasks :
            (observing # NULL /\ Started(t)) =>
                (last'.err = "channelUnavailable" /\ task'[t].pc = "idle")]_vars

\* C39: a messagePublished notification is the same whatever the payload
\* was: it names the destination and carries nothing of the content.
C39_NoPayloadInNotification ==
    published.name = "messagePublished" =>
        \A p \in Payloads : published = [published EXCEPT !.message = p]

\* Task t is inside ensureChannel, waiting for its createChannel.
Creating(t) == task[t].pc = "ensure_create"

\* The operation of task t got its channel from a createChannel of its own.
Created(t) ==
    /\ task[t].pc = "op_call"
    /\ Len(task[t].issued) > 0
    /\ task[t].issued[1] = "createChannel"

\* C34: operations started together with the channel absent and the
\* connection held share one createChannel and one channel.
C34_SingleLazyCreate ==
    \A t, u \in Tasks :
        t # u =>
            /\ ~(Creating(t) /\ Creating(u) /\ task[t].tconn = task[u].tconn)
            /\ (Created(t) /\ Created(u)
                  /\ chanConn[task[t].tch] = chanConn[task[u].tch]) =>
                    task[t].tch = task[u].tch

\* The consumer was registered on a channel that is no longer live.
ConsumerLost == consumerChan # NULL /\ chanState[consumerChan] # "live"

\* C35: lazy re-creation issues createChannel and nothing else.  The step in
\* which ensureChannel gets its new channel declares nothing and registers
\* no consumer, and a consumer whose channel is lost gets no delivery until
\* consume registers it again.
C35_RecreationOnly ==
    /\ [][\A t \in Tasks :
            (Creating(t) /\ task'[t].pc = "op_call") =>
                /\ UNCHANGED <<topology, dispatch>>
                /\ task'[t].issued =
                      <<"createChannel", Awaited(task[t].kind)[1]>>]_vars
    /\ [][(ConsumerLost /\ consumerChan' = consumerChan) =>
            \A m \in Msgs : delivery'[m].count = delivery[m].count]_vars

\* C35 witness: the consumer's channel is lost, a message is waiting in the
\* queue, and an operation holds a channel that ensureChannel has just
\* created for it.
C35_Witness ==
    /\ ConsumerLost
    /\ \E m \in Msgs : delivery[m].state = "ready"
    /\ \E t \in Tasks :
          Created(t) /\ task[t].tch = channel /\ chanState[channel] = "live"

====
